---- MODULE Spec2Model ----
(***************************************************************************)
(* Model of ploneapi-shell's tag engine: the bulk tag mutator              *)
(* (merge-tags / rename-tag / remove-tag on the CLI, in the REPL and over  *)
(* the HTTP front-end, all of which end in api.update_item_subjects) and   *)
(* the tag aggregator api.get_all_tags.                                    *)
(*                                                                         *)
(* The remote Plone site is the environment.  It holds one Subject list    *)
(* per content item; every request the client sends is answered by a       *)
(* nondeterministic choice among the answers a server can give (transport  *)
(* or status error, success with the write applied, success with the       *)
(* write silently dropped, a body that is the item's representation or an  *)
(* empty body).                                                            *)
(***************************************************************************)
EXTENDS Integers, Sequences, FiniteSets, TLC

\* ------------------------------------------------------------------ bounds
NumItems == 2          \* content items on the site
MaxRuns == 2           \* commands run one after the other on the same site
MaxRecs == 2           \* items of a search page that are spelled out
ChainLen == 22         \* containers nested below the root of the deep site
MaxMapLen == 3         \* keys of a tag map given to find_similar_tags
MaxCount == 2          \* highest frequency in such a map
MaxFields == 2         \* tag fields of an item given to the extraction
NumCalls == 2          \* get_all_tags calls running at the same time
MaxClock == 31         \* seconds of clock time followed
MaxRenewals == 3       \* @login-renew requests followed

\* ------------------------------------------------------- program constants
PreviewLimit == 10     \* items[:10] in every dry-run preview
PageSize == 1000       \* params["b_size"] of the tag search
MaxItems == 10000      \* max_items of the tag search
MaxDepth == 20         \* max_depth of collect_tags_recursive
TOKEN_REFRESH_LEEWAY == 120
TOKEN_REFRESH_MIN_INTERVAL == 30

Items == 1..NumItems
NoTag == ""
DryFlag == "--dry-run"

\* The Subject lists the site's items start with: corpus k gives item i the
\* list at place i + k of this ring.
InitLists ==
  << <<"swim", "news">>, <<"swimming", "pool">>, <<"swim", "swimming">>,
     <<"news">>, <<"swim">> >>
Corpus(k) == [ i \in Items |-> InitLists[((i + k) % Len(InitLists)) + 1] ]

VARIABLES
  srv,        \* server: item -> its Subject list
  root,       \* the item whose @id is the base URL itself (0: none)
  pc,         \* position of the running command
  cmd,        \* the command being run (after delegation)
  run,        \* commands completed so far
  queue,      \* items_list still to be processed by the per-item loop
  cur,        \* the loop's current item: id, current_tags, new_tags
  step,       \* update_item_subjects: index of the write approach to try next
  log,        \* write requests sent by the current update_item_subjects call
  updResult,  \* how the last update_item_subjects call ended
  updated,    \* the command's "updated" counter
  errors,     \* the command's "errors" counter
  preview,    \* number of items previewed
  pre,        \* history: srv when the command started
  atCall,     \* history: srv[item] when update_item_subjects was called
  matched,    \* history: ids of items_list
  attempts,   \* history: loop iterations begun per item in this command
  counted,    \* history: increments of updated/errors per item
  verified,   \* history: what the last verification refetch showed
  wrote,      \* history: this command has sent a write request
  clean,      \* history: no request of this command failed or was dropped
  ran,        \* history: the command entered its per-item loop
  prev,       \* history: ran/clean/matched of the previous command
  \* one call of api.get_all_tags
  tpc,          \* position of the call
  site,         \* the site browsed: container path -> its listing
  start,        \* the `path` argument (0: the site root, "")
  used_search,  \* used_search
  tag_counts,   \* tag_counts: tag -> count (0: no entry)
  nitems,       \* len(items)
  items_total,  \* data.get("items_total", len(items))
  todo,         \* items_without_subjects still to be fetched in full
  stack,        \* collect_tags_recursive: the frames of the calls in progress
  callee,       \* collect_tags_recursive: the call being entered
  visited,      \* visited_paths
  item_cache,   \* item_cache (its keys)
  search_end,   \* history: how the search strategy ended
  browsed,      \* history: the recursive browse was started
  skipped,      \* history: items received but left unread by a loop that raised
  page_lens,    \* history: the length of each search page asked for, in
                \* order (-1: the request failed)
  fetched,      \* history: the container paths the fallback asked the server for
  refetched,    \* history: it asked for one of them again
  deepest,      \* history: the greatest depth at which it asked for one
  \* one call of a function on given arguments
  fcall,        \* the function called and its arguments
  fresult,      \* what the call returned or raised
  \* get_all_tags calls running on worker threads of the server
  calls,        \* thread -> the locals of its call
  \* the saved configuration and the requests that carry its token
  config,       \* the configuration file's content (what json.load gives)
  writing,      \* the file's text while save_config is at work on it
  clock,        \* the time in seconds, as int(time.time()) reads it
  renewLog,     \* history: the times of the @login-renew requests
  request,      \* history: the last request an API call sent
  \* server requests whose API calls run on worker threads
  workers       \* request -> its position, base, last load_config result,
                \* the configuration it is saving, the header it sent

cmdVars == << srv, root, pc, cmd, run, queue, cur, step, log, updResult,
              updated, errors, preview, pre, atCall, matched, attempts,
              counted, verified, wrote, clean, ran, prev >>
tagVars == << tpc, site, start, used_search, tag_counts, nitems, items_total,
              todo, stack, callee, visited, item_cache, search_end, browsed,
              skipped, page_lens, fetched, refetched, deepest >>
browseHist == << fetched, refetched, deepest >>
authVars == << config, writing, clock, renewLog, request, workers >>
restVars == << fcall, fresult, calls, authVars >>
vars == << cmdVars, tagVars, restVars >>

\* ------------------------------------------------------------ list helpers
Has(seq, x) == \E k \in 1..Len(seq) : seq[k] = x
SetOf(seq) == { seq[k] : k \in 1..Len(seq) }
Min(a, b) == IF a < b THEN a ELSE b

\* MergeTags dropping only the first source tag
MergeTagsFirstSourceOnly(current, sources, target) ==
  LET kept == SelectSeq(current, LAMBDA t : t # sources[1])
  IN IF Has(kept, target) THEN kept ELSE Append(kept, target)

\* [tag for tag in current_tags if tag not in source_tags];
\* if target_tag not in new_tags: new_tags.append(target_tag)
MergeTags(current, sources, target) ==
  LET kept == SelectSeq(current, LAMBDA t : ~Has(sources, t))
  IN IF Has(kept, target) THEN kept ELSE Append(kept, target)

\* RemoveTag with the comparison inverted
RemoveTagInverted(current, tag) == SelectSeq(current, LAMBDA t : t = tag)

\* [t for t in current_tags if t != tag]
RemoveTag(current, tag) == SelectSeq(current, LAMBDA t : t # tag)

\* [str(s).strip() for s in subjects if s and str(s).strip()]
\* (the model's tags are trimmed strings, so only the emptiness filter acts)
CleanSubjects(subjects) == SelectSeq(subjects, LAMBDA s : s # "")

\* ----------------------------------------------------------------- search
\* api.search_by_subject: the records of the items whose Subject list holds
\* `tag`, in catalog order.  `meta` says whether the catalog's records carry
\* the 'subjects' metadata column.
RECURSIVE SearchFrom(_, _, _, _)
SearchFrom(i, s, tag, meta) ==
  IF i > NumItems THEN <<>>
  ELSE (IF Has(s[i], tag)
        THEN << [id |-> i, hasSubjects |-> meta,
                 subjects |-> IF meta THEN s[i] ELSE <<>>] >>
        ELSE <<>>) \o SearchFrom(i + 1, s, tag, meta)

search_by_subject(s, tag, meta) == SearchFrom(1, s, tag, meta)

\* item.get("subjects", [])
GetSubjects(item) == IF item.hasSubjects THEN item.subjects ELSE <<>>

\* all_items[item_id] = item, then list(all_items.values()): a dict keyed by
\* @id keeps the position of the first insertion and the value of the last.
RECURSIVE UnionById(_, _)
UnionById(acc, rest) ==
  IF rest = <<>> THEN acc
  ELSE LET it == Head(rest)
           at == { k \in 1..Len(acc) : acc[k].id = it.id }
       IN IF at # {}
          THEN UnionById([acc EXCEPT ![CHOOSE k \in at : TRUE] = it], Tail(rest))
          ELSE UnionById(Append(acc, it), Tail(rest))

\* for source_tag in source_tags: search, skipping the tags whose search failed
RECURSIVE CollectFrom(_, _, _, _, _)
CollectFrom(k, s, sources, okTags, meta) ==
  IF k > Len(sources) THEN <<>>
  ELSE (IF sources[k] \in okTags THEN search_by_subject(s, sources[k], meta) ELSE <<>>)
       \o CollectFrom(k + 1, s, sources, okTags, meta)

\* collect_items appending every search's records without the union by @id
collect_items_no_union(s, sources, okTags, meta) ==
  CollectFrom(1, s, sources, okTags, meta)

collect_items(s, sources, okTags, meta) ==
  UnionById(<<>>, CollectFrom(1, s, sources, okTags, meta))

IdsOf(list) == { list[k].id : k \in 1..Len(list) }

\* --------------------------------------------------------------- commands
\* What the user types: an entry point, the source tags, the target tag
\* (NoTag for remove-tag) and whether --dry-run is given.
SourceChoices == { <<"swim", "swimming">> }
TargetChoices == { "pool", "swim" }

UserCommands ==
  [ front : {"cli merge-tags", "repl merge-tags", "http merge"},
    sources : SourceChoices, target : TargetChoices, dry : BOOLEAN ]
  \cup
  [ front : {"cli rename-tag", "repl rename-tag", "http rename"},
    sources : { <<"swim">> }, target : {"pool"}, dry : BOOLEAN ]
  \cup
  [ front : {"cli remove-tag", "repl remove-tag", "http remove"},
    sources : { <<"swim">> }, target : {NoTag}, dry : BOOLEAN ]

\* The REPL splits the line with shlex and hands every token after the
\* command name to the handler as args.
ReplArgs(u) ==
  u.sources \o (IF u.target # NoTag THEN << u.target >> ELSE <<>>)
            \o (IF u.dry THEN << DryFlag >> ELSE <<>>)

\* cmd_repl, merge-tags: source_tags = args[:-1]; target_tag = args[-1]
repl_merge(u) ==
  LET args == ReplArgs(u)
  IN [ handler |-> "repl_merge", sources |-> SubSeq(args, 1, Len(args) - 1),
       target |-> args[Len(args)], dry |-> FALSE, flag |-> u.dry ]

\* cmd_repl, rename-tag: old_tag, new_tag = args[0], args[1]
repl_rename(u) ==
  LET args == ReplArgs(u)
  IN [ handler |-> "repl_rename", sources |-> << args[1] >>,
       target |-> args[2], dry |-> FALSE, flag |-> u.dry ]

\* cmd_repl, remove-tag: tag = args[0]
repl_remove(u) ==
  LET args == ReplArgs(u)
  IN [ handler |-> "repl_remove", sources |-> << args[1] >>,
       target |-> NoTag, dry |-> FALSE, flag |-> u.dry ]

cmd_merge_tags(sources, target, dry) ==
  [ handler |-> "cmd_merge_tags", sources |-> sources, target |-> target,
    dry |-> dry, flag |-> dry ]

\* cmd_merge_tags([old_tag], new_tag, path, base, dry_run, no_auth)
cmd_rename_tag(old, new, dry) == cmd_merge_tags(<< old >>, new, dry)

cmd_remove_tag(tag, dry) ==
  [ handler |-> "cmd_remove_tag", sources |-> << tag >>, target |-> NoTag,
    dry |-> dry, flag |-> dry ]

merge_tags(sources, target, dry) ==
  [ handler |-> "http_merge", sources |-> sources, target |-> target,
    dry |-> dry, flag |-> dry ]

\* MergeTagsRequest(sources=[request.old_tag], target=request.new_tag, ...)
rename_tag(old, new, dry) == merge_tags(<< old >>, new, dry)

remove_tag(tag, dry) ==
  [ handler |-> "http_remove", sources |-> << tag >>, target |-> NoTag,
    dry |-> dry, flag |-> dry ]

\* The handler a typed command reaches, with the arguments it sees.
Dispatch(u) ==
  CASE u.front = "cli merge-tags"  -> cmd_merge_tags(u.sources, u.target, u.dry)
    [] u.front = "cli rename-tag"  -> cmd_rename_tag(u.sources[1], u.target, u.dry)
    [] u.front = "cli remove-tag"  -> cmd_remove_tag(u.sources[1], u.dry)
    [] u.front = "repl merge-tags" -> repl_merge(u)
    [] u.front = "repl rename-tag" -> repl_rename(u)
    [] u.front = "repl remove-tag" -> repl_remove(u)
    [] u.front = "http merge"      -> merge_tags(u.sources, u.target, u.dry)
    [] u.front = "http rename"     -> rename_tag(u.sources[1], u.target, u.dry)
    [] u.front = "http remove"     -> remove_tag(u.sources[1], u.dry)

IsRemove(c) == c.handler \in {"cmd_remove_tag", "repl_remove", "http_remove"}
\* handlers that refetch the item before computing its new tags and verify after
Refetches(c) == c.handler \in {"cmd_merge_tags", "repl_rename"}
\* handlers that keep an errors counter
CountsErrors(c) == c.handler \notin {"repl_merge", "repl_remove"}
\* handlers that ask the user before writing (typer.confirm / confirm_prompt)
Confirms(c) == c.handler \notin {"http_merge", "http_remove"}
\* handlers in which a failed search only skips that source tag
SkipsFailedSearch(c) == c.handler \in {"cmd_merge_tags", "repl_merge"}
\* handlers that build the preview list before looking at dry_run
AlwaysPreviews(c) == c.handler \in {"http_merge", "http_remove"}

\* The tag list a handler computes for an item from its current tags.
NewTags(c, current) ==
  IF IsRemove(c) THEN RemoveTag(current, c.sources[1])
  ELSE MergeTags(current, c.sources, c.target)

\* item.get("@id", "").replace(resolved_base.rstrip("/"), "").lstrip("/"):
\* empty (0) exactly for the record whose @id is the base URL.
ItemPath(i, r) == IF i = r THEN 0 ELSE i

\* ------------------------------------------------- get_all_tags: the data
\* An item of a search page or of a container listing: its @id, whether it
\* is a JSON object at all, whether it is folderish, and its tag fields as
\* key/value pairs.  A value is a list of strings or a single string.
Tags == {"swim", "news"}
FieldOrder ==
  << "Subject", "subject", "@components.Subject", "metadata.Subject",
     "subjects", "keywords", "Keywords", "tags", "Tags" >>

ListVal(l) == [ str |-> FALSE, v |-> l ]
StrVal(x) == [ str |-> TRUE, v |-> <<x>> ]
Field(k, val) == [ key |-> k, val |-> val ]
Item(i, folder, fields) ==
  [ id |-> i, dict |-> TRUE, folder |-> folder, fields |-> fields ]
NotADict(i) == [ id |-> i, dict |-> FALSE, folder |-> FALSE, fields |-> <<>> ]

\* str.strip() on the strings the model uses
Strip(x) == IF x = " news" THEN "news" ELSE IF x = " " THEN "" ELSE x

\* Subjects reading the first key whose value is not empty
SubjectsFirstNonEmpty(item) ==
  LET filled(k) == \E j \in 1..Len(item.fields) :
                     /\ item.fields[j].key = k
                     /\ item.fields[j].val.v # <<>> /\ item.fields[j].val.v # <<"">>
      present == { k \in 1..Len(FieldOrder) : filled(FieldOrder[k]) }
      first == CHOOSE k \in present : \A m \in present : k <= m
      raw == item.fields[CHOOSE j \in 1..Len(item.fields) :
                           item.fields[j].key = FieldOrder[first]].val
  IN IF present = {} THEN <<>>
     ELSE SelectSeq(raw.v, LAMBDA x : x # "" /\ Strip(x) # "")

\* if "Subject" in item: ... elif "subject" in item: ... : the value of the
\* first key of FieldOrder the item has, as a list; then
\* [s for s in subjects if s and isinstance(s, str) and s.strip()]
Subjects(item) ==
  LET has(k) == \E j \in 1..Len(item.fields) : item.fields[j].key = k
      present == { k \in 1..Len(FieldOrder) : has(FieldOrder[k]) }
      first == CHOOSE k \in present : \A m \in present : k <= m
      raw == item.fields[CHOOSE j \in 1..Len(item.fields) :
                           item.fields[j].key = FieldOrder[first]].val
      list == IF present = {} THEN <<>>
              ELSE IF raw.str THEN (IF raw.v[1] # "" THEN raw.v ELSE <<>>)
              ELSE raw.v
  IN SelectSeq(list, LAMBDA x : x # "" /\ Strip(x) # "")

\* tag_counts[subject] = tag_counts.get(subject, 0) + 1, for each subject
RECURSIVE CountInto(_, _)
CountInto(tc, subjects) ==
  IF subjects = <<>> THEN tc
  ELSE CountInto([tc EXCEPT ![Strip(Head(subjects))] = @ + 1], Tail(subjects))

NoCounts == [ t \in Tags |-> 0 ]
\* `if tag_counts`
AnyTag(tc) == \E t \in Tags : tc[t] > 0

\* The kinds of record a search page is made of.
RecKinds == {"tagged", "lower", "bare", "shadow", "notdict"}
Rec(kind, i) ==
  CASE kind = "tagged" -> Item(i, FALSE, << Field("Subject", ListVal(<<"swim">>)) >>)
    [] kind = "lower" -> Item(i, FALSE, << Field("subjects", ListVal(<<"swim", " news">>)) >>)
    [] kind = "bare" -> Item(i, FALSE, <<>>)
    [] kind = "shadow" -> Item(i, FALSE, << Field("tags", ListVal(<<"news">>)),
                                          Field("Subject", StrVal("")) >>)
    [] kind = "notdict" -> NotADict(i)

\* A search response: n items, of which the leading ones are spelled out; the
\* others are records of untagged content (an @id, no tag field).
PageLens == {0, MaxRecs, PageSize}
Pages ==
  { pg \in [ n : PageLens, recs : UNION { [1..k -> RecKinds] : k \in 0..MaxRecs } ] :
      Len(pg.recs) = Min(pg.n, MaxRecs) }

\* The loop over the items of one page: the counts after it, the ids of the
\* spelled-out items without subjects, and whether an item made it raise
\* (the counts made before that item stay; the items after it are left).
RECURSIVE ScanFrom(_, _, _, _, _)
ScanFrom(k, recs, base, tc, without) ==
  IF k > Len(recs)
  THEN [ tc |-> tc, without |-> without, raised |-> FALSE, left |-> {} ]
  ELSE LET item == Rec(recs[k], base + k)
       IN IF ~item.dict
          THEN [ tc |-> tc, without |-> without, raised |-> TRUE,
                 left |-> { Rec(recs[j], base + j) : j \in k+1..Len(recs) } ]
          ELSE IF Subjects(item) # <<>>
          THEN ScanFrom(k + 1, recs, base, CountInto(tc, Subjects(item)), without)
          ELSE ScanFrom(k + 1, recs, base, tc, Append(without, item.id))

ScanPage(pg, base, tc) == ScanFrom(1, pg.recs, base, tc, <<>>)

\* The sites the fallback browses: container path -> its listing.  Path 0 is
\* the site root; an item whose @id is the base URL has path 0 ("").
Doc(i, tag) == Item(i, FALSE, << Field("Subject", ListVal(<<tag>>)) >>)
Folder(i) == Item(i, TRUE, <<>>)

\* containers that list each other, the root and a shared document
SmallSite ==
  [ p \in 0..2 |->
      CASE p = 0 -> << Doc(10, "swim"), Folder(1), Folder(0), Folder(2) >>
        [] p = 1 -> << Doc(11, "news"), Folder(2), Folder(1) >>
        [] p = 2 -> << Doc(10, "swim"), Folder(1), NotADict(12), Doc(13, "news") >> ]

\* a chain of nested containers, one document in each
DeepSite ==
  [ p \in 0..ChainLen |->
      IF p < ChainLen THEN << Doc(100 + p, "swim"), Folder(p + 1) >>
      ELSE << Doc(100 + p, "swim") >> ]

Sites == { SmallSite, DeepSite }
StartPaths == {0, 1}

NoCall == [ path |-> 0, depth |-> 0 ]

\* get_all_tags not running
TagsAtRest ==
  /\ tpc = "idle"
  /\ site = SmallSite
  /\ start = 0
  /\ used_search = FALSE
  /\ tag_counts = NoCounts
  /\ nitems = 0
  /\ items_total = 0
  /\ todo = <<>>
  /\ stack = <<>>
  /\ callee = NoCall
  /\ visited = {}
  /\ item_cache = {}
  /\ search_end = "none"
  /\ browsed = FALSE
  /\ skipped = {}
  /\ page_lens = <<>>
  /\ fetched = {}
  /\ refetched = FALSE
  /\ deepest = 0

\* no function call under observation, no worker thread running
NoFun == [ fn |-> "none" ]
NoResult == [ kind |-> "none" ]
\* a configuration saved by a login at time 0, no request sent yet
Url(host, path) == [ host |-> host, path |-> path ]
Base(host, slash) == [ host |-> host, path |-> <<"++api++">>, slash |-> slash ]
\* base.rstrip("/")
Rstrip(base) == [ base EXCEPT !.slash = FALSE ]
SavedBase == Base("plone", FALSE)
Saved(token, token_exp, updated_at) ==
  [ present |-> TRUE, base |-> SavedBase, token |-> token,
    token_exp |-> token_exp, updated_at |-> updated_at ]
NoConfig == [ present |-> FALSE ]
NoRequest == [ method |-> "none" ]
Threads == 1..NumCalls
NoLoad == [ present |-> TRUE, loaded |-> FALSE ]
IdleWorker == [ pc |-> "idle", base |-> SavedBase, got |-> NoLoad,
                data |-> NoConfig, auth |-> "none" ]
AuthAtRest ==
  /\ config = Saved(1, 0, 0)
  /\ writing = "no"
  /\ clock = 0
  /\ renewLog = <<>>
  /\ request = NoRequest
  /\ workers = [ t \in Threads |-> IdleWorker ]

RestAtRest ==
  /\ fcall = NoFun
  /\ fresult = NoResult
  /\ calls = <<>>
  /\ AuthAtRest

NoItem == [ id |-> 0, current |-> <<>>, new |-> <<>>, fallback |-> FALSE ]
NoCmd == [ handler |-> "none", sources |-> <<>>, target |-> NoTag,
           dry |-> FALSE, flag |-> FALSE ]
ZeroCount == [ i \in Items |-> 0 ]

Init ==
  /\ \E k \in 1..Len(InitLists) : srv = Corpus(k)
  /\ root \in {0, 1}
  /\ pc = "idle"
  /\ cmd = NoCmd
  /\ run = 0
  /\ queue = <<>>
  /\ cur = NoItem
  /\ step = 0
  /\ log = <<>>
  /\ updResult = "none"
  /\ updated = 0
  /\ errors = 0
  /\ preview = 0
  /\ verified = "none"
  /\ pre = srv
  /\ atCall = <<>>
  /\ matched = {}
  /\ attempts = ZeroCount
  /\ counted = ZeroCount
  /\ wrote = FALSE
  /\ clean = TRUE
  /\ ran = FALSE
  /\ prev = [ ran |-> FALSE, clean |-> FALSE, matched |-> {} ]
  /\ TagsAtRest
  /\ RestAtRest

\* ------------------------------------------------------ starting a command
\* A repeated run is the same command given again after a run that went
\* through without a failure.
\* The handler up to its per-item loop: the searches, the union by @id, the
\* empty-result return, the dry-run preview and the confirmation prompt.
\* okTags: the source tags whose search request succeeds; meta: whether the
\* search records carry 'subjects'; yes: the user's answer to the prompt.
StartCmd(u, okTags, meta, yes) ==
  LET c == Dispatch(u)
      srcs == SetOf(c.sources)
      aborted == okTags # srcs /\ ~SkipsFailedSearch(c)
      items_list == IF aborted THEN <<>>
                    ELSE collect_items(srv, c.sources, okTags, meta)
      dryReturn == items_list # <<>> /\ c.dry
      enters == items_list # <<>> /\ ~c.dry /\ (Confirms(c) => yes)
  IN /\ pc = "idle"
     /\ run < MaxRuns
     /\ run > 0 => (c = cmd /\ prev.ran /\ prev.clean)
     /\ cmd' = c
     /\ pre' = srv
     /\ matched' = IdsOf(items_list)
     /\ queue' = IF enters THEN items_list ELSE <<>>
     /\ preview' = IF items_list # <<>> /\ (c.dry \/ AlwaysPreviews(c))
                   THEN Min(Len(items_list), PreviewLimit) ELSE 0
     /\ pc' = IF enters THEN "loop" ELSE "done"
     /\ ran' = enters
     /\ clean' = (okTags = srcs)
     /\ updated' = 0
     /\ errors' = 0
     /\ wrote' = FALSE
     /\ attempts' = ZeroCount
     /\ counted' = ZeroCount
     /\ cur' = NoItem
     /\ step' = 0
     /\ log' = <<>>
     /\ updResult' = "none"
     /\ atCall' = <<>>
     /\ verified' = "none"
     /\ UNCHANGED << srv, root, run, prev, tagVars,
                     restVars >>

\* ------------------------------------------------------ the per-item loop
\* OnItemError leaving the loop at the first failing item
OnItemErrorAborts(rest) == <<>>

\* `continue` / the except clause of the loop body: the loop goes on with
\* the items that are left.
OnItemError(rest) == rest

\* One iteration of "for item in items_list" up to the call of
\* update_item_subjects.  fetchOk: whether the handler's own refetch of the
\* item succeeds (only the refetching handlers fetch).
BeginItem(fetchOk) ==
  LET item == Head(queue)
      i == item.id
      rest == Tail(queue)
      current == IF Refetches(cmd) /\ fetchOk THEN srv[i] ELSE GetSubjects(item)
      new == NewTags(cmd, current)
      noPath == Refetches(cmd) /\ ItemPath(i, root) = 0
      unchanged == Refetches(cmd) /\ SetOf(current) = SetOf(new)
  IN /\ pc = "loop"
     /\ queue # <<>>
     /\ attempts' = [attempts EXCEPT ![i] = @ + 1]
     /\ verified' = "none"
     /\ IF noPath
        THEN \* errors += 1; continue
             /\ fetchOk
             /\ errors' = errors + 1
             /\ counted' = [counted EXCEPT ![i] = @ + 1]
             /\ clean' = FALSE
             /\ queue' = OnItemError(rest)
             /\ UNCHANGED << pc, cur, atCall >>
        ELSE /\ Refetches(cmd) \/ fetchOk
             /\ clean' = (clean /\ fetchOk)
             /\ queue' = rest
             /\ UNCHANGED << errors, counted >>
             /\ IF unchanged
                THEN \* "Tags didn't change": neither updated nor an error
                     UNCHANGED << pc, cur, atCall >>
                ELSE /\ pc' = "update"
                     /\ cur' = [ id |-> i, current |-> current,
                                 new |-> CleanSubjects(new),
                                 fallback |-> Refetches(cmd) /\ ~fetchOk ]
                     /\ atCall' = srv[i]
     /\ UNCHANGED << srv, root, cmd, run, step, log, updResult, updated,
                     preview, pre, matched, wrote, ran, prev, tagVars,
                     restVars >>

\* ---------------------------------------------------- update_item_subjects
\* WriteSteps trying the lowercase field name before the documented one
WriteStepsLowercaseFirst ==
  << [ method |-> "PATCH", endpoint |-> "item", field |-> "subjects",
       payload |-> "subjects", onOk |-> "check", okNext |-> 0, onFail |-> 2 ],
     [ method |-> "PATCH", endpoint |-> "item", field |-> "Subject",
       payload |-> "subjects", onOk |-> "return", okNext |-> 0, onFail |-> 0 ] >>

\* The write approaches in the order the function tries them.  onOk is what
\* a success response leads to: "check" compares the response body with the
\* subjects sent, "return" returns the body unchecked, a number goes on to
\* that approach.  onFail is the approach an APIError leads to (0: raise).
WriteSteps ==
  << [ method |-> "PATCH", endpoint |-> "item", field |-> "Subject",
       payload |-> "subjects", onOk |-> "check", okNext |-> 0, onFail |-> 2 ],
     [ method |-> "PATCH", endpoint |-> "item", field |-> "subjects",
       payload |-> "subjects", onOk |-> "return", okNext |-> 0, onFail |-> 3 ],
     [ method |-> "PATCH", endpoint |-> "item", field |-> "Subject",
       payload |-> "empty", onOk |-> "next", okNext |-> 4, onFail |-> 5 ],
     [ method |-> "PATCH", endpoint |-> "item", field |-> "Subject",
       payload |-> "subjects", onOk |-> "return", okNext |-> 0, onFail |-> 5 ],
     [ method |-> "PATCH", endpoint |-> "item", field |-> "@type+Subject",
       payload |-> "subjects", onOk |-> "return", okNext |-> 0, onFail |-> 6 ],
     [ method |-> "PATCH", endpoint |-> "@content", field |-> "Subject",
       payload |-> "subjects", onOk |-> "return", okNext |-> 0, onFail |-> 7 ],
     [ method |-> "PATCH", endpoint |-> "item", field |-> "Subject",
       payload |-> "subjects", onOk |-> "return", okNext |-> 0, onFail |-> 8 ],
     [ method |-> "POST", endpoint |-> "@content", field |-> "Subject",
       payload |-> "subjects", onOk |-> "return", okNext |-> 0, onFail |-> 9 ],
     [ method |-> "PATCH", endpoint |-> "@fields/subject", field |-> "(body)",
       payload |-> "subjects", onOk |-> "return", okNext |-> 0, onFail |-> 0 ] >>

\* result.get("Subject") or result.get("subjects", []) of a response body:
\* the item's representation, or {} for an empty body.
ReportedSubjects(body, now) == IF body = "repr" THEN now ELSE <<>>

\* set(updated_subjects) != set(subjects) raises APIError inside the try
\* block whose except clause starts the fallback approaches.
Confirmed(body, now, subjects) == SetOf(ReportedSubjects(body, now)) = SetOf(subjects)

\* The start of update_item_subjects: the fetch of the current item (and of
\* its @schema, whose failure is ignored).  A failed fetch raises APIError.
UpdateFetch(ok) ==
  /\ pc = "update"
  /\ IF ok
     THEN /\ pc' = "write"
          /\ step' = 1
          /\ UNCHANGED << updResult, clean >>
     ELSE /\ pc' = "after"
          /\ updResult' = "raise"
          /\ clean' = FALSE
          /\ UNCHANGED step
  /\ UNCHANGED << srv, root, cmd, run, queue, cur, log, updated, errors,
                  preview, pre, atCall, matched, attempts, counted, wrote,
                  ran, prev, tagVars,
                     restVars, verified >>

\* One write request of update_item_subjects and the branch its answer
\* selects.  outcome: "fail" (APIError), "applied" or "dropped" (success
\* status, the server did or did not store the list); body: what a success
\* response carries.
SendWrite(outcome, body) ==
  LET w == WriteSteps[step]
      i == cur.id
      value == IF w.payload = "empty" THEN <<>> ELSE cur.new
      now == IF outcome = "applied" THEN value ELSE srv[i]
      ok == outcome # "fail"
      confirmed == ok /\ (w.onOk = "check" => Confirmed(body, now, cur.new))
      returns == confirmed /\ w.onOk # "next"
      next == IF ok /\ w.onOk = "next" THEN w.okNext ELSE w.onFail
      resp == IF ~ok THEN "fail" ELSE IF confirmed THEN "ok" ELSE "unconfirmed"
  IN /\ pc = "write"
     /\ w.onOk # "check" => body = "empty"
     /\ ~ok => body = "empty"
     /\ srv' = [srv EXCEPT ![i] = now]
     /\ log' = Append(log, [ method |-> w.method, endpoint |-> w.endpoint,
                             field |-> w.field, value |-> value, resp |-> resp ])
     /\ wrote' = TRUE
     /\ clean' = (clean /\ ok /\ (outcome = "dropped" => w.field = "subjects"))
     /\ IF returns
        THEN /\ pc' = "after" /\ updResult' = "ok" /\ step' = 0
        ELSE IF next = 0
        THEN /\ pc' = "after" /\ updResult' = "raise" /\ step' = 0
        ELSE /\ pc' = "write" /\ step' = next /\ UNCHANGED updResult
     /\ UNCHANGED << root, cmd, run, queue, cur, updated, errors, preview,
                     pre, atCall, matched, attempts, counted, ran, prev, tagVars,
                     restVars, verified >>

\* a verification that looks at the source tags only
UpdateFailedOnSourcesOnly(source_tags_still_present, target_tag_present) ==
  source_tags_still_present

\* The three branches of the verification that count an error: a source tag
\* still present (with or without the target), or the target missing.
UpdateFailed(source_tags_still_present, target_tag_present) ==
  source_tags_still_present \/ ~target_tag_present

\* What the verification refetch showed: nothing when the handler does not
\* verify or the update raised ("skipped") or when the fetch failed
\* ("unread"); else the item as merged ("merged") or not ("unmerged").
Shown(verifies, verifyOk, source_tags_still_present, target_tag_present) ==
  IF ~verifies THEN "skipped"
  ELSE IF ~verifyOk THEN "unread"
  ELSE IF ~source_tags_still_present /\ target_tag_present THEN "merged"
  ELSE "unmerged"

\* What the loop body does once update_item_subjects has returned or raised:
\* the except clauses, the verification refetch of the refetching handlers,
\* and the counters.  verifyOk: whether the verification fetch succeeds.
AfterUpdate(verifyOk) ==
  LET i == cur.id
      verify_tags == srv[i]
      source_tags_still_present == \E t \in SetOf(cmd.sources) : Has(verify_tags, t)
      target_tag_present == Has(verify_tags, cmd.target)
      verifies == updResult = "ok" /\ Refetches(cmd)
      failed == \/ updResult = "raise"
                \/ verifies /\ verifyOk
                   /\ UpdateFailed(source_tags_still_present, target_tag_present)
  IN /\ pc = "after"
     /\ ~verifies => verifyOk
     /\ IF failed
        THEN /\ errors' = IF CountsErrors(cmd) THEN errors + 1 ELSE errors
             /\ counted' = IF CountsErrors(cmd)
                           THEN [counted EXCEPT ![i] = @ + 1] ELSE counted
             /\ queue' = OnItemError(queue)
             /\ UNCHANGED updated
        ELSE /\ updated' = updated + 1
             /\ counted' = [counted EXCEPT ![i] = @ + 1]
             /\ UNCHANGED << errors, queue >>
     /\ clean' = (clean /\ verifyOk /\ ~failed)
     /\ pc' = "loop"
     /\ cur' = NoItem
     /\ log' = <<>>
     /\ updResult' = "none"
     /\ atCall' = <<>>
     /\ verified' = Shown(verifies, verifyOk, source_tags_still_present,
                          target_tag_present)
     /\ UNCHANGED << srv, root, cmd, run, step, preview, pre, matched,
                     attempts, wrote, ran, prev, tagVars,
                     restVars >>

\* The loop is exhausted: the handler reports its counters.
EndLoop ==
  /\ pc = "loop"
  /\ queue = <<>>
  /\ pc' = "done"
  /\ UNCHANGED << srv, root, cmd, run, queue, cur, step, log, updResult,
                  updated, errors, preview, pre, atCall, matched, attempts,
                  counted, wrote, clean, ran, prev, tagVars,
                     restVars, verified >>

\* The handler has returned; the next command may be given.
Finish ==
  /\ pc = "done"
  /\ pc' = "idle"
  /\ run' = run + 1
  /\ prev' = [ ran |-> ran, clean |-> clean, matched |-> matched ]
  /\ UNCHANGED << srv, root, cmd, queue, cur, step, log, updResult, updated,
                  errors, preview, pre, atCall, matched, attempts, counted,
                  wrote, clean, ran, tagVars,
                     restVars, verified >>

Next ==
  \/ \E u \in UserCommands, meta \in BOOLEAN, yes \in BOOLEAN :
       \E okTags \in SUBSET SetOf(Dispatch(u).sources) :
         StartCmd(u, okTags, meta, yes)
  \/ \E fetchOk \in BOOLEAN : BeginItem(fetchOk)
  \/ \E ok \in BOOLEAN : UpdateFetch(ok)
  \/ \E outcome \in {"fail", "applied", "dropped"}, body \in {"repr", "empty"} :
       SendWrite(outcome, body)
  \/ \E verifyOk \in BOOLEAN : AfterUpdate(verifyOk)
  \/ EndLoop
  \/ Finish

Spec == Init /\ [][Next]_vars

\* =========================================================== get_all_tags
\* The bulk commands are not running while the aggregation is observed.
CmdAtRest ==
  /\ srv = Corpus(1)
  /\ root = 0
  /\ pc = "idle"
  /\ cmd = NoCmd
  /\ run = 0
  /\ queue = <<>>
  /\ cur = NoItem
  /\ step = 0
  /\ log = <<>>
  /\ updResult = "none"
  /\ updated = 0
  /\ errors = 0
  /\ preview = 0
  /\ verified = "none"
  /\ pre = srv
  /\ atCall = <<>>
  /\ matched = {}
  /\ attempts = ZeroCount
  /\ counted = ZeroCount
  /\ wrote = FALSE
  /\ clean = TRUE
  /\ ran = FALSE
  /\ prev = [ ran |-> FALSE, clean |-> FALSE, matched |-> {} ]

InitTags ==
  /\ CmdAtRest
  /\ RestAtRest
  /\ tpc = "idle"
  /\ site \in Sites
  /\ start = 0
  /\ used_search = FALSE
  /\ tag_counts = NoCounts
  /\ nitems = 0
  /\ items_total = 0
  /\ todo = <<>>
  /\ stack = <<>>
  /\ callee = NoCall
  /\ visited = {}
  /\ item_cache = {}
  /\ search_end = "none"
  /\ browsed = FALSE
  /\ skipped = {}
  /\ page_lens = <<>>
  /\ fetched = {}
  /\ refetched = FALSE
  /\ deepest = 0

\* get_all_tags(base, path): tag_counts = {}, used_search = False
CallGetAllTags(path) ==
  /\ tpc = "idle"
  /\ tpc' = "search"
  /\ start' = path
  /\ UNCHANGED << site, used_search, tag_counts, nitems, items_total, todo,
                  stack, callee, visited, item_cache, search_end, browsed,
                  skipped, page_lens, browseHist, cmdVars, restVars >>

\* The exceptions the requests and loops of get_all_tags end with: the
\* three a search request raises (HTTP error status, transport error, body
\* that is not JSON), the one of an element that is not an object, and the
\* one api.fetch raises.
Exceptions ==
  {"HTTPStatusError", "RequestError", "ValueError", "TypeError", "APIError"}
SearchErrors == {"HTTPStatusError", "RequestError", "ValueError"}

\* SearchExcept catching the two httpx exceptions only
SearchExceptHttpOnly(e) == e \in {"HTTPStatusError", "RequestError"}

\* except (httpx.HTTPStatusError, httpx.RequestError, Exception) around the
\* search strategy
SearchExcept(e) == e \in {"HTTPStatusError", "RequestError"} \/ e \in Exceptions

\* except Exception: continue, around one full-item fetch
RefetchExcept(e) == e \in Exceptions

\* except Exception: pass, in collect_tags_recursive and around its first call
BrowseExcept(e) == e \in Exceptions

\* Where control goes when an exception is raised under a handler: to the
\* handler's continuation, or out of get_all_tags.
OnRaise(caught, continuation) == IF caught THEN continuation ELSE "raised"

\* `if tag_counts: return tag_counts`, else on to the fallback test
AfterSearch(tc) == IF AnyTag(tc) THEN "returned" ELSE "decide"
SearchResult(tc) == IF AnyTag(tc) THEN "tags" ELSE "empty"

\* The first search request and the loop over its items.  ok: the request
\* and the decoding of its body succeed; pg: the page; total: the body's
\* items_total (the page's length when the body has none).
FirstPage(ok, pg, total) ==
  LET scan == ScanPage(pg, 0, tag_counts)
      refetch == scan.without # <<>> /\ ~AnyTag(scan.tc)
  IN /\ tpc = "search"
     /\ nitems = 0 /\ ~used_search
     /\ IF ~ok
        THEN \* the except clause, with used_search still False
             /\ pg.n = 0 /\ total = 0
             /\ \E e \in SearchErrors : tpc' = OnRaise(SearchExcept(e), "decide")
             /\ search_end' = "first"
             /\ UNCHANGED << used_search, tag_counts, nitems, items_total, todo >>
        ELSE /\ used_search' = TRUE
             /\ tag_counts' = scan.tc
             /\ nitems' = pg.n
             /\ IF scan.raised
                THEN /\ tpc' = OnRaise(SearchExcept("TypeError"), "decide")
                     /\ search_end' = "item"
                     /\ UNCHANGED << items_total, todo >>
                ELSE /\ items_total' = total
                     /\ todo' = IF refetch THEN scan.without ELSE <<>>
                     /\ tpc' = IF refetch THEN "refetch" ELSE "paging"
                     /\ UNCHANGED search_end
     /\ skipped' = IF ok THEN skipped \cup scan.left ELSE skipped
     /\ page_lens' = Append(page_lens, IF ok THEN pg.n ELSE -1)
     /\ UNCHANGED << site, start, stack, callee, visited, item_cache, browsed,
                     browseHist, cmdVars, restVars >>

\* for item_url in items_without_subjects[:100]: the fetch of one item in
\* full and the count of its subjects; a failure skips the item.  The
\* untagged content behind the spelled-out items has no tag to add, so its
\* fetches are not stepped through.  ok: the fetch succeeds; kind: what the
\* full item looks like.
RefetchItem(ok, kind) ==
  LET full_item == Rec(kind, Head(todo))
      counts == ok /\ full_item.dict
      e == IF ok THEN "TypeError" ELSE "APIError"
      goes_on == IF Tail(todo) = <<>> THEN "paging" ELSE "refetch"
  IN /\ tpc = "refetch"
     /\ todo # <<>>
     /\ ~ok => kind = "bare"
     /\ tag_counts' = IF counts THEN CountInto(tag_counts, Subjects(full_item))
                      ELSE tag_counts
     /\ todo' = Tail(todo)
     /\ tpc' = IF counts \/ RefetchExcept(e) THEN goes_on
               ELSE OnRaise(SearchExcept(e), "decide")
     /\ UNCHANGED << site, start, used_search, nitems, items_total, stack,
                     callee, visited, item_cache, search_end, browsed, skipped, page_lens,
                     browseHist, cmdVars, restVars >>

\* the loop condition without its limit
MorePagesNoCap == items_total > nitems

\* while items_total > len(items) and len(items) < max_items
MorePages == items_total > nitems /\ nitems < MaxItems

\* One more page of the search.  ok: the request succeeds; pg: the page.
NextPage(ok, pg) ==
  LET scan == ScanPage(pg, nitems, tag_counts)
      last == pg.n < PageSize
  IN /\ tpc = "paging"
     /\ MorePages
     /\ IF ~ok
        THEN /\ pg.n = 0
             /\ \E e \in SearchErrors : tpc' = OnRaise(SearchExcept(e), "decide")
             /\ search_end' = "page"
             /\ UNCHANGED << tag_counts, nitems >>
        ELSE IF pg.n = 0
        THEN \* if not page_items: break
             /\ tpc' = AfterSearch(tag_counts)
             /\ search_end' = SearchResult(tag_counts)
             /\ UNCHANGED << tag_counts, nitems >>
        ELSE IF scan.raised
        THEN /\ tag_counts' = scan.tc
             /\ tpc' = OnRaise(SearchExcept("TypeError"), "decide")
             /\ search_end' = "item"
             /\ UNCHANGED nitems
        ELSE /\ tag_counts' = scan.tc
             /\ nitems' = nitems + pg.n
             /\ tpc' = IF last THEN AfterSearch(scan.tc) ELSE "paging"
             /\ search_end' = IF last THEN SearchResult(scan.tc) ELSE search_end
     /\ skipped' = IF ok THEN skipped \cup scan.left ELSE skipped
     /\ page_lens' = Append(page_lens, IF ok THEN pg.n ELSE -1)
     /\ UNCHANGED << site, start, used_search, items_total, todo, stack,
                     callee, visited, item_cache, browsed, browseHist, cmdVars, restVars >>

\* The paging loop's condition is false: the search is complete.
EndSearch ==
  /\ tpc = "paging"
  /\ ~MorePages
  /\ tpc' = AfterSearch(tag_counts)
  /\ search_end' = SearchResult(tag_counts)
  /\ UNCHANGED << site, start, used_search, tag_counts, nitems, items_total,
                  todo, stack, callee, visited, item_cache, browsed, skipped, page_lens,
                  browseHist, cmdVars, restVars >>

\* if not used_search or not tag_counts
StartsFallback == ~used_search \/ ~AnyTag(tag_counts)

\* After the search strategy, completed or not: the fallback is started, or
\* tag_counts is returned.
Decide ==
  /\ tpc = "decide"
  /\ IF StartsFallback
     THEN /\ callee' = [ path |-> start, depth |-> 0 ]
          /\ tpc' = "call"
          /\ browsed' = TRUE
     ELSE /\ tpc' = "returned"
          /\ UNCHANGED << callee, browsed >>
  /\ UNCHANGED << site, start, used_search, tag_counts, nitems, items_total,
                  todo, stack, visited, item_cache, search_end, skipped, page_lens, browseHist, cmdVars,
                  restVars >>

\* The frame on top of the call stack, and where control goes when a call
\* of collect_tags_recursive ends: back into the caller's loop, or out of
\* get_all_tags.
Top == Head(stack)
BackTo(frames) == IF frames = <<>> THEN "returned" ELSE "items"

\* a path test that never finds the path visited
VisitedNever(p) == FALSE
\* `current_path in visited_paths`, `item_path not in visited_paths`
Visited(p) == p \in visited

\* a depth test that lets every depth through
TooDeepNever(depth) == FALSE
\* `depth > max_depth`
TooDeep(depth) == depth > MaxDepth

\* if current_path in visited_paths or depth > max_depth: return
Skips(p, depth) == Visited(p) \/ TooDeep(depth)

\* The head of collect_tags_recursive(current_path, depth): the visited and
\* depth test, visited_paths.add, and the fetch of the container (skipped
\* when the path is in item_cache).  ok: the fetch succeeds.
BrowseCall(ok) ==
  LET p == callee.path
      cached == p \in item_cache
      found == cached \/ (ok /\ p \in DOMAIN site)
  IN /\ tpc = "call"
     /\ IF Skips(p, callee.depth)
        THEN /\ ok
             /\ tpc' = BackTo(stack)
             /\ UNCHANGED << stack, visited, item_cache >>
        ELSE /\ visited' = visited \cup {p}
             /\ cached => ok
             /\ IF found
                THEN /\ item_cache' = item_cache \cup {p}
                     /\ stack' = << [ path |-> p, depth |-> callee.depth,
                                      items |-> site[p] ] >> \o stack
                     /\ tpc' = "items"
                ELSE \* except Exception: pass
                     /\ tpc' = OnRaise(BrowseExcept("APIError"), BackTo(stack))
                     /\ UNCHANGED << stack, item_cache >>
     /\ callee' = NoCall
     /\ IF ~Skips(p, callee.depth) /\ ~cached
        THEN \* url, data = fetch(current_path, ...)
             /\ fetched' = fetched \cup {p}
             /\ refetched' = (refetched \/ p \in fetched)
             /\ deepest' = IF callee.depth > deepest THEN callee.depth ELSE deepest
        ELSE UNCHANGED browseHist
     /\ UNCHANGED << site, start, used_search, tag_counts, nitems, items_total,
                     todo, search_end, browsed, skipped, page_lens, cmdVars,
                     restVars >>

\* One iteration of "for item in items" in collect_tags_recursive: the
\* count of the item's subjects and, for a container not yet visited, the
\* recursive call.  An item that makes the body raise ends the call.
BrowseItem ==
  LET item == Head(Top.items)
      item_path == item.id
      recurse == item.folder /\ item_path # 0 /\ ~Visited(item_path)
  IN /\ tpc = "items"
     /\ Top.items # <<>>
     /\ IF ~item.dict
        THEN /\ stack' = Tail(stack)
             /\ tpc' = OnRaise(BrowseExcept("TypeError"), BackTo(Tail(stack)))
             /\ skipped' = skipped \cup SetOf(Tail(Top.items))
             /\ UNCHANGED << tag_counts, callee >>
        ELSE /\ tag_counts' = CountInto(tag_counts, Subjects(item))
             /\ stack' = << [ Top EXCEPT !.items = Tail(@) ] >> \o Tail(stack)
             /\ IF recurse
                THEN /\ callee' = [ path |-> item_path, depth |-> Top.depth + 1 ]
                     /\ tpc' = "call"
                ELSE UNCHANGED << callee, tpc >>
             /\ UNCHANGED skipped
     /\ UNCHANGED << site, start, used_search, nitems, items_total, todo,
                     visited, item_cache, search_end, browsed, page_lens,
                     browseHist, cmdVars, restVars >>

\* The loop over a container's items is exhausted: the call returns.
BrowseReturn ==
  /\ tpc = "items"
  /\ Top.items = <<>>
  /\ stack' = Tail(stack)
  /\ tpc' = BackTo(Tail(stack))
  /\ UNCHANGED << site, start, used_search, tag_counts, nitems, items_total,
                  todo, callee, visited, item_cache, search_end, browsed,
                  skipped, page_lens, browseHist, cmdVars, restVars >>

\* items_total values a first response may carry, besides the page's length
TotalChoices == {0, PageSize + PageSize, MaxItems + MaxItems}

NextTags ==
  \/ \E path \in StartPaths : CallGetAllTags(path)
  \/ \E ok \in BOOLEAN, pg \in Pages :
       \E total \in TotalChoices \cup {pg.n} : FirstPage(ok, pg, total)
  \/ \E ok \in BOOLEAN, kind \in RecKinds : RefetchItem(ok, kind)
  \/ \E ok \in BOOLEAN, pg \in Pages : NextPage(ok, pg)
  \/ EndSearch
  \/ Decide
  \/ \E ok \in BOOLEAN : BrowseCall(ok)
  \/ BrowseItem
  \/ BrowseReturn

SpecTags == InitTags /\ [][NextTags]_vars

\* The call as a running program: it goes on as long as it has a step to
\* take (every request ends, by an answer or by the 15 s timeout).  The pages
\* are those whose shape matters to the control flow: empty, short or full;
\* with tags or without; ending on an item that makes the loop raise.
TermKinds == {"tagged", "bare", "notdict"}
TermPages ==
  { pg \in Pages : \A k \in 1..Len(pg.recs) :
      /\ pg.recs[k] \in TermKinds
      /\ k < Len(pg.recs) => pg.recs[k] = pg.recs[1]
      /\ pg.recs[k] = "notdict" => k = Len(pg.recs) /\ k > 1
      /\ pg.n = PageSize => pg.recs[k] = "bare" }

NextTagsFair ==
  \/ \E path \in StartPaths : CallGetAllTags(path)
  \/ \E ok \in BOOLEAN, pg \in TermPages :
       \E total \in TotalChoices \cup {pg.n} : FirstPage(ok, pg, total)
  \/ \E ok \in BOOLEAN, kind \in TermKinds : RefetchItem(ok, kind)
  \/ \E ok \in BOOLEAN, pg \in TermPages : NextPage(ok, pg)
  \/ EndSearch
  \/ Decide
  \/ \E ok \in BOOLEAN : BrowseCall(ok)
  \/ BrowseItem
  \/ BrowseReturn

SpecTagsFair == InitTags /\ [][NextTagsFair]_vars /\ WF_vars(NextTagsFair)

\* ====================================================== find_similar_tags
\* The tag map is a dict: its keys come in insertion order.
TagNames == {"swim", "Swim", "swims", "swimming"}
TagMaps ==
  { m \in UNION { [1..n -> [tag : TagNames, count : 1..MaxCount]] : n \in 0..MaxMapLen } :
      \A j, k \in 1..Len(m) : m[j].tag = m[k].tag => j = k }
Queries == {"", "Swim", "swims", "swimming"}
Thresholds == {0, 62, 67, 68, 89, 100}

\* str.lower()
Lower(x) == IF x = "Swim" THEN "swim" ELSE x

\* fuzz.ratio(a, b) on lower-cased names: 100 * 2 * LCS(a, b) / (len(a) +
\* len(b)), rounded
Ratio(a, b) ==
  IF a = b THEN 100
  ELSE IF {a, b} = {"swim", "swims"} THEN 89
  ELSE IF {a, b} = {"swim", "swimming"} THEN 67
  ELSE IF {a, b} = {"swims", "swimming"} THEN 62
  ELSE 0

\* the place of a lower-cased name in string order
AlphaRank(x) ==
  CASE x = "swim" -> 1 [] x = "swimming" -> 2 [] x = "swims" -> 3

None == "(None)"
Record(tag, count, similarity, other) ==
  [ tag |-> tag, freq |-> count, score |-> similarity, matched |-> other ]

\* key=lambda x: (-x[2], -x[1], x[0].lower()): a sorts before b
KeyLess(a, b) ==
  \/ a.score > b.score
  \/ a.score = b.score /\ a.freq > b.freq
  \/ a.score = b.score /\ a.freq = b.freq
     /\ AlphaRank(Lower(a.tag)) < AlphaRank(Lower(b.tag))

\* InsertSorted putting a record before the records with an equal key
RECURSIVE InsertSortedBeforeEqual(_, _)
InsertSortedBeforeEqual(sorted, r) ==
  IF sorted = <<>> THEN << r >>
  ELSE IF ~KeyLess(Head(sorted), r) THEN << r >> \o sorted
  ELSE << Head(sorted) >> \o InsertSortedBeforeEqual(Tail(sorted), r)

\* list.sort is stable: a record goes after the records whose key is not
\* greater than its own
RECURSIVE InsertSorted(_, _)
InsertSorted(sorted, r) ==
  IF sorted = <<>> THEN << r >>
  ELSE IF KeyLess(r, Head(sorted)) THEN << r >> \o sorted
  ELSE << Head(sorted) >> \o InsertSorted(Tail(sorted), r)

RECURSIVE SortInto(_, _)
SortInto(sorted, records) ==
  IF records = <<>> THEN sorted
  ELSE SortInto(InsertSorted(sorted, Head(records)), Tail(records))

SortRecords(records) == SortInto(<<>>, records)

\* QueryRecords keeping only the tags that score above the threshold
RECURSIVE QueryRecordsAbove(_, _, _)
QueryRecordsAbove(m, query_lower, threshold) ==
  IF m = <<>> THEN <<>>
  ELSE LET similarity == Ratio(query_lower, Lower(Head(m).tag))
       IN (IF similarity > threshold
           THEN << Record(Head(m).tag, Head(m).count, similarity, None) >>
           ELSE <<>>) \o QueryRecordsAbove(Tail(m), query_lower, threshold)

\* for tag, count in tag_counts.items(): if similarity >= threshold: append
RECURSIVE QueryRecords(_, _, _)
QueryRecords(m, query_lower, threshold) ==
  IF m = <<>> THEN <<>>
  ELSE LET similarity == Ratio(query_lower, Lower(Head(m).tag))
       IN (IF similarity >= threshold
           THEN << Record(Head(m).tag, Head(m).count, similarity, None) >>
           ELSE <<>>) \o QueryRecords(Tail(m), query_lower, threshold)

\* PairWith giving a tie to the second tag of the pair
RECURSIVE PairWithSecondOnTie(_, _, _)
PairWithSecondOnTie(first, others, threshold) ==
  IF others = <<>> THEN <<>>
  ELSE LET second == Head(others)
           similarity == Ratio(Lower(first.tag), Lower(second.tag))
       IN (IF similarity >= threshold
           THEN (IF first.count > second.count
                 THEN << Record(first.tag, first.count, similarity, second.tag) >>
                 ELSE << Record(second.tag, second.count, similarity, first.tag) >>)
           ELSE <<>>) \o PairWithSecondOnTie(first, Tail(others), threshold)

\* for tag2, count2 in tag_list[i + 1:]: the record of each pair at or above
\* the threshold, under the name of the more frequent tag
RECURSIVE PairWith(_, _, _)
PairWith(first, others, threshold) ==
  IF others = <<>> THEN <<>>
  ELSE LET second == Head(others)
           similarity == Ratio(Lower(first.tag), Lower(second.tag))
       IN (IF similarity >= threshold
           THEN (IF first.count >= second.count
                 THEN << Record(first.tag, first.count, similarity, second.tag) >>
                 ELSE << Record(second.tag, second.count, similarity, first.tag) >>)
           ELSE <<>>) \o PairWith(first, Tail(others), threshold)

\* for i, (tag1, count1) in enumerate(tag_list)
RECURSIVE PairRecords(_, _)
PairRecords(m, threshold) ==
  IF m = <<>> THEN <<>>
  ELSE PairWith(Head(m), Tail(m), threshold) \o PairRecords(Tail(m), threshold)

\* find_similar_tags, given the map get_all_tags returned
find_similar_tags(m, query_tag, threshold) ==
  IF m = <<>> THEN <<>>
  ELSE IF query_tag # "" THEN SortRecords(QueryRecords(m, Lower(query_tag), threshold))
  ELSE SortRecords(PairRecords(m, threshold))

SimilarCalls ==
  { [ fn |-> "find_similar_tags", map |-> m, query |-> q, threshold |-> th ] :
      m \in TagMaps, q \in Queries, th \in Thresholds }

\* ======================================================== tag extraction
\* The items the extraction is tried on: up to MaxFields tag fields, under
\* any keys of FieldOrder, holding a list or a single string.
FieldValues ==
  { ListVal(<<>>), ListVal(<<"swim">>), ListVal(<<"news", "">>),
    StrVal("news"), StrVal("") }
FieldLists ==
  { f \in UNION { [1..n -> [ key : SetOf(FieldOrder), val : FieldValues ]] :
                    n \in 0..MaxFields } :
      \A j, k \in 1..Len(f) : f[j].key = f[k].key => j = k }
ExtractCalls ==
  { [ fn |-> "subjects", item |-> Item(1, FALSE, f) ] : f \in FieldLists }

\* ============================================================= api.fetch
\* What httpx.get meets: no response (the request failed on the way), or a
\* response with a status and a body.
TransportErrors == { "ConnectError", "ReadTimeout" }
StatusCodes == { 200, 302, 404, 500 }
JsonBodies == { "object", "array" }
Bodies == JsonBodies \cup { "text", "empty" }
Responses ==
  { [ reached |-> FALSE, error |-> e ] : e \in TransportErrors }
    \cup { [ reached |-> TRUE, status |-> c, body |-> b ] :
             c \in StatusCodes, b \in Bodies }

Returned(v) == [ kind |-> "returned", v |-> v ]
Raised(e) == [ kind |-> "raised", error |-> e ]

\* response.raise_for_status(): 4xx and 5xx raise HTTPStatusError; whether a
\* 3xx response raises depends on the httpx release (strict).
RaisesForStatus(response, strict) ==
  \/ response.status >= 400
  \/ strict /\ response.status >= 300

\* fetch with a body that is not JSON read as an empty object
fetchLenient(response, strict) ==
  IF ~response.reached THEN Raised("APIError")
  ELSE IF RaisesForStatus(response, strict) THEN Raised("APIError")
  ELSE IF response.body \notin JsonBodies
         THEN Returned([ url |-> "url", data |-> "object" ])
  ELSE Returned([ url |-> "url", data |-> response.body ])

\* api.fetch: httpx.RequestError, httpx.HTTPStatusError and the ValueError of
\* response.json() each become APIError; otherwise (url, data) is returned.
fetch(response, strict) ==
  IF ~response.reached THEN Raised("APIError")
  ELSE IF RaisesForStatus(response, strict) THEN Raised("APIError")
  ELSE IF response.body \notin JsonBodies THEN Raised("APIError")
  ELSE Returned([ url |-> "url", data |-> response.body ])

\* cli.fetch: api.fetch with APIError raised again as CliError
cli_fetch(response, strict) ==
  LET r == fetch(response, strict)
  IN IF r.kind = "raised" /\ r.error = "APIError" THEN Raised("CliError") ELSE r

\* cmd_get: the read, then the GET line, then the data (raw JSON, or the
\* summary and the items, which need the data to be an object)
cmd_get(response, strict, raw) ==
  LET r == cli_fetch(response, strict)
  IN IF r.kind = "raised"
       THEN [ kind |-> "raised", error |-> r.error, printed |-> <<>> ]
     ELSE IF raw
       THEN [ kind |-> "returned", printed |-> << "GET", "json" >> ]
     ELSE IF r.v.data = "object"
       THEN [ kind |-> "returned", printed |-> << "GET", "summary" >> ]
     ELSE [ kind |-> "raised", error |-> "AttributeError",
            printed |-> << "GET" >> ]

FetchCalls ==
  { [ fn |-> "fetch", response |-> r ] : r \in Responses }
    \cup { [ fn |-> "get", response |-> r, raw |-> w ] :
             r \in Responses, w \in BOOLEAN }

\* ===================================================== calls of functions
FunCalls == SimilarCalls \cup ExtractCalls \cup FetchCalls

InitFun ==
  /\ CmdAtRest
  /\ TagsAtRest
  /\ fcall \in FunCalls
  /\ fresult = NoResult
  /\ calls = <<>>
  /\ AuthAtRest

Pending == fresult = NoResult

CallFindSimilarTags ==
  /\ Pending
  /\ fcall.fn = "find_similar_tags"
  /\ fresult' = Returned(find_similar_tags(fcall.map, fcall.query, fcall.threshold))
  /\ UNCHANGED << fcall, calls, cmdVars, tagVars, authVars >>

\* the extraction of an item's subjects, as every loop of get_all_tags does it
CallSubjects ==
  /\ Pending
  /\ fcall.fn = "subjects"
  /\ fresult' = Returned(Subjects(fcall.item))
  /\ UNCHANGED << fcall, calls, cmdVars, tagVars, authVars >>

CallFetch ==
  /\ Pending
  /\ fcall.fn = "fetch"
  /\ \E strict \in BOOLEAN : fresult' = fetch(fcall.response, strict)
  /\ UNCHANGED << fcall, calls, cmdVars, tagVars, authVars >>

CallGet ==
  /\ Pending
  /\ fcall.fn = "get"
  /\ \E strict \in BOOLEAN : fresult' = cmd_get(fcall.response, strict, fcall.raw)
  /\ UNCHANGED << fcall, calls, cmdVars, tagVars, authVars >>

NextFun ==
  \/ CallFindSimilarTags
  \/ CallSubjects
  \/ CallFetch
  \/ CallGet

SpecFun == InitFun /\ [][NextFun]_vars

\* ========================================== get_all_tags on worker threads
\* list_tags hands each request's get_all_tags call to a worker thread
\* (asyncio.to_thread), so calls overlap.  The server answers every search
\* with one complete page (items_total = the page's length) of tagged items,
\* or with an error, and every container listing with documents only: on
\* these answers a call is the search, the test for the fallback, and at
\* most one listing.

\* `tag_counts: Dict[str, int] = {}`: the dictionary a call counts into is
\* made by that call
SharedCell(t) == 1
Cell(t) == t

ThreadPages ==
  { pg \in Pages : /\ pg.n = Len(pg.recs)
                   /\ \A k \in 1..Len(pg.recs) : pg.recs[k] \in {"tagged", "lower"} }
SearchAnswers ==
  { [ kind |-> "error" ] } \cup { [ kind |-> "page", pg |-> pg ] : pg \in ThreadPages }
Listings ==
  { <<>>, << Doc(10, "swim") >>, << Doc(11, "news") >>,
    << Doc(10, "swim"), Doc(11, "news") >> }
ListingAnswers ==
  { [ kind |-> "error" ] } \cup { [ kind |-> "listing", items |-> l ] : l \in Listings }

\* the search: an error leaves the counts and used_search as they were; a
\* page is counted
SearchStep(tc, answer) ==
  IF answer.kind = "error" THEN [ tc |-> tc, used_search |-> FALSE ]
  ELSE [ tc |-> ScanPage(answer.pg, 0, tc).tc, used_search |-> TRUE ]

\* collect_tags_recursive on a container of documents
RECURSIVE CountListing(_, _)
CountListing(tc, items) ==
  IF items = <<>> THEN tc
  ELSE CountListing(CountInto(tc, Subjects(Head(items))), Tail(items))
ListingStep(tc, answer) ==
  IF answer.kind = "error" THEN tc ELSE CountListing(tc, answer.items)

IdleCall ==
  [ pc |-> "idle", used_search |-> FALSE, got |-> <<>>, result |-> NoCounts ]

InitThreads ==
  /\ CmdAtRest
  /\ TagsAtRest
  /\ fcall = NoFun
  /\ fresult = NoResult
  /\ calls = [ th |-> [ t \in Threads |-> IdleCall ],
               heap |-> [ c \in Threads |-> NoCounts ] ]
  /\ AuthAtRest

OtherVars == << fcall, fresult, cmdVars, tagVars, authVars >>

\* the call starts: its empty dictionary
ThreadCall(t) ==
  /\ calls.th[t].pc = "idle"
  /\ calls' = [ calls EXCEPT !.th[t].pc = "search",
                             !.heap[Cell(t)] = NoCounts ]
  /\ UNCHANGED OtherVars

\* the search request and the loop over its page
ThreadSearch(t, answer) ==
  LET after == SearchStep(calls.heap[Cell(t)], answer)
  IN /\ calls.th[t].pc = "search"
     /\ calls' = [ calls EXCEPT !.th[t].pc = "decide",
                                !.th[t].used_search = after.used_search,
                                !.th[t].got = Append(@, answer),
                                !.heap[Cell(t)] = after.tc ]
     /\ UNCHANGED OtherVars

\* `if not used_search or not tag_counts`, and the return when it is false
ThreadDecide(t) ==
  /\ calls.th[t].pc = "decide"
  /\ IF ~calls.th[t].used_search \/ ~AnyTag(calls.heap[Cell(t)])
     THEN calls' = [ calls EXCEPT !.th[t].pc = "browse" ]
     ELSE calls' = [ calls EXCEPT !.th[t].pc = "returned",
                                  !.th[t].result = calls.heap[Cell(t)] ]
  /\ UNCHANGED OtherVars

\* the fallback on the start container, and the return
ThreadBrowse(t, answer) ==
  LET tc == ListingStep(calls.heap[Cell(t)], answer)
  IN /\ calls.th[t].pc = "browse"
     /\ calls' = [ calls EXCEPT !.th[t].pc = "returned",
                                !.th[t].got = Append(@, answer),
                                !.th[t].result = tc,
                                !.heap[Cell(t)] = tc ]
     /\ UNCHANGED OtherVars

NextThreads ==
  \/ \E t \in Threads : ThreadCall(t)
  \/ \E t \in Threads, answer \in SearchAnswers : ThreadSearch(t, answer)
  \/ \E t \in Threads : ThreadDecide(t)
  \/ \E t \in Threads, answer \in ListingAnswers : ThreadBrowse(t, answer)

SpecThreads == InitThreads /\ [][NextThreads]_vars

\* ================================================ the saved token in use
\* One process making API calls one after the other, with the clock moving
\* between them.
Targets ==
  { [ kind |-> "none" ],
    [ kind |-> "path", path |-> <<"news">> ],
    [ kind |-> "url", url |-> Url("plone", <<"++api++", "news">>) ],
    [ kind |-> "url", url |-> Url("elsewhere", <<"news">>) ] }
BaseArgs == { Base("plone", FALSE), Base("plone", TRUE), Base("mirror", TRUE) }
Methods == { "GET", "POST", "PATCH" }

\* resolve_url: the base for no path, an absolute http(s) URL as it is, a
\* path joined to the base
resolve_url(path_or_url, base) ==
  CASE path_or_url.kind = "none" -> Url(base.host, base.path)
    [] path_or_url.kind = "url" -> path_or_url.url
    [] OTHER -> Url(base.host, base.path \o path_or_url.path)

\* _should_refresh_token at time t
should_refresh_token(auth, t) ==
  /\ auth.token_exp # 0
  /\ auth.token_exp - TOKEN_REFRESH_LEEWAY <= t
  /\ t - auth.updated_at >= TOKEN_REFRESH_MIN_INTERVAL

\* What @login-renew answers: an object with a token or without one, an
\* error status, no answer, a body that is not JSON, JSON that is no object.
RenewAnswers == { "token", "notoken", "status", "transport", "text", "array" }
\* the answers _renew_token ends on with `return None`
RenewFails(answer) == answer \in { "notoken", "status", "transport", "text" }

\* get_saved_auth_headers(base): the token to send (0: no header), the
\* configuration it leaves, whether it asked for a renewal, and whether it
\* raised (payload.get on a body that is no object is not caught).
get_saved_auth_headers(base, answer, new_exp) ==
  IF \/ ~config.present
     \/ config.base # Rstrip(base)
     \/ config.token = 0
  THEN [ token |-> 0, config |-> config, renews |-> FALSE, raised |-> FALSE ]
  ELSE IF ~should_refresh_token(config, clock)
  THEN [ token |-> config.token, config |-> config, renews |-> FALSE,
         raised |-> FALSE ]
  ELSE IF answer = "token"
  THEN [ token |-> config.token + 1,
         config |-> Saved(config.token + 1, new_exp, clock),
         renews |-> TRUE, raised |-> FALSE ]
  ELSE IF RenewFails(answer)
  THEN [ token |-> config.token,
         config |-> [ config EXCEPT !.updated_at = clock ],
         renews |-> TRUE, raised |-> FALSE ]
  ELSE [ token |-> 0, config |-> config, renews |-> TRUE, raised |-> TRUE ]

\* apply_auth: the caller's Authorization header or no_auth leave the saved
\* token out
apply_auth(own_header, base, no_auth, answer, new_exp) ==
  IF no_auth \/ own_header
  THEN [ token |-> 0, config |-> config, renews |-> FALSE, raised |-> FALSE ]
  ELSE get_saved_auth_headers(base, answer, new_exp)

InitAuth ==
  /\ CmdAtRest
  /\ TagsAtRest
  /\ fcall = NoFun
  /\ fresult = NoResult
  /\ calls = <<>>
  /\ config \in { NoConfig, Saved(1, 0, 0), Saved(1, 100, 0) }
  /\ writing = "no"
  /\ clock = 0
  /\ renewLog = <<>>
  /\ request = NoRequest
  /\ workers = [ t \in Threads |-> IdleWorker ]

AuthOthers == << fcall, fresult, calls, cmdVars, tagVars, writing, workers >>

\* the answers that matter to a call: those of @login-renew when the call
\* asks for a renewal
AnswersFor(base, no_auth, own_header) ==
  IF apply_auth(own_header, base, no_auth, "status", 0).renews
  THEN RenewAnswers ELSE { "status" }

\* fetch / post / patch up to the request: resolve_url, apply_auth, httpx.
\* answer: what @login-renew answers; new_exp: the expiry of a new token
\* (0: none that can be read).
ApiCall(method, path_or_url, base, no_auth, own_header) ==
  \E answer \in AnswersFor(base, no_auth, own_header) :
    \E new_exp \in (IF answer = "token" THEN {0, clock + 100} ELSE {0}) :
      LET auth == apply_auth(own_header, base, no_auth, answer, new_exp)
      IN /\ Len(renewLog) < MaxRenewals
         /\ config' = auth.config
         /\ renewLog' = IF auth.renews THEN Append(renewLog, clock) ELSE renewLog
         /\ request' = IF auth.raised THEN NoRequest
                       ELSE [ method |-> method,
                              url |-> resolve_url(path_or_url, base),
                              auth |-> IF own_header THEN "own"
                                       ELSE IF auth.token # 0 THEN "saved"
                                       ELSE "none",
                              token |-> auth.token ]
         /\ UNCHANGED << clock, AuthOthers >>

\* time passes
Tick(d) ==
  /\ clock + d <= MaxClock
  /\ clock' = clock + d
  /\ UNCHANGED << config, renewLog, request, AuthOthers >>

NextAuth ==
  \/ \E method \in Methods, path_or_url \in Targets, base \in BaseArgs,
        no_auth \in BOOLEAN, own_header \in BOOLEAN :
       ApiCall(method, path_or_url, base, no_auth, own_header)
  \/ \E d \in {1, 29} : Tick(d)

SpecAuth == InitAuth /\ [][NextAuth]_vars

\* ============================== the configuration file and worker threads
\* The server's handlers read the base with get_base_url(None) and hand the
\* API call to a worker thread (asyncio.to_thread); the call reads the
\* configuration again in apply_auth and, when the token is due for renewal,
\* writes it back.  Requests overlap; one thread writes the file at a time.
DEFAULT_BASE == Base("demo", TRUE)

\* load_config: json.load of the file's text.  While save_config has the
\* file open the text is empty or cut short; json.JSONDecodeError gives None.
load_config == IF writing = "no" THEN config ELSE NoConfig

\* get_base_url(None): the saved base, or DEFAULT_BASE without a config
get_base_url(c) == IF c.present THEN c.base ELSE DEFAULT_BASE

InitConfig ==
  /\ CmdAtRest
  /\ TagsAtRest
  /\ fcall = NoFun
  /\ fresult = NoResult
  /\ calls = <<>>
  /\ config = Saved(1, 100, 0)
  /\ writing = "no"
  /\ clock = TOKEN_REFRESH_MIN_INTERVAL
  /\ renewLog = <<>>
  /\ request = NoRequest
  /\ workers = [ t \in Threads |-> IdleWorker ]

ConfigOthers == << fcall, fresult, calls, cmdVars, tagVars, clock, request >>

\* The handler of request t: base = api.get_base_url(None)
Handler(t) ==
  LET c == load_config
  IN /\ workers[t].pc = "idle"
     /\ workers' = [ workers EXCEPT ![t].pc = "called", ![t].got = c,
                                    ![t].base = get_base_url(c) ]
     /\ UNCHANGED << config, writing, renewLog, ConfigOthers >>

\* apply_auth on the worker thread, up to the call of _write_auth_config:
\* get_saved_auth_headers loads the configuration, compares the bases, and
\* renews a token that is due.  answer: what @login-renew answers.
Headers(t, answer) ==
  LET c == load_config
      base == workers[t].base
      bare == ~c.present \/ c.base # Rstrip(base) \/ c.token = 0
      due == ~bare /\ should_refresh_token(c, clock)
      data == IF answer = "token" THEN Saved(c.token + 1, clock + 100, clock)
              ELSE [ c EXCEPT !.updated_at = clock ]
  IN /\ workers[t].pc = "called"
     /\ ~due => answer = "status"
     /\ workers' = [ workers EXCEPT
                       ![t].pc = IF due THEN "save" ELSE "sent",
                       ![t].got = c,
                       ![t].data = IF due THEN data ELSE NoConfig,
                       ![t].auth = IF bare THEN "none" ELSE "saved" ]
     /\ renewLog' = IF due THEN Append(renewLog, clock) ELSE renewLog
     /\ UNCHANGED << config, writing, ConfigOthers >>

\* save_config: CONFIG_FILE.open("w") truncates the file
SaveOpen(t) ==
  /\ workers[t].pc = "save"
  /\ writing = "no"
  /\ writing' = "opened"
  /\ workers' = [ workers EXCEPT ![t].pc = "opened" ]
  /\ UNCHANGED << config, renewLog, ConfigOthers >>

\* json.dump(data, handle, indent=2) writes the text piece by piece; a part
\* of it may reach the file before the rest
SaveDump(t) ==
  /\ workers[t].pc = "opened"
  /\ writing = "opened"
  /\ writing' = "partial"
  /\ UNCHANGED << config, workers, renewLog, ConfigOthers >>

\* the end of the with block: the whole text is in the file; the API call
\* goes on to its request
SaveClose(t) ==
  /\ workers[t].pc = "opened"
  /\ config' = workers[t].data
  /\ writing' = "no"
  /\ workers' = [ workers EXCEPT ![t].pc = "sent", ![t].data = NoConfig ]
  /\ UNCHANGED << renewLog, ConfigOthers >>

\* the request is answered; the next one comes in
Answered(t) ==
  /\ workers[t].pc = "sent"
  /\ workers' = [ workers EXCEPT ![t] = IdleWorker ]
  /\ UNCHANGED << config, writing, renewLog, ConfigOthers >>

NextConfig ==
  \/ \E t \in Threads : Handler(t)
  \/ \E t \in Threads, answer \in { "token", "status" } : Headers(t, answer)
  \/ \E t \in Threads : SaveOpen(t)
  \/ \E t \in Threads : SaveDump(t)
  \/ \E t \in Threads : SaveClose(t)
  \/ \E t \in Threads : Answered(t)

SpecConfig == InitConfig /\ [][NextConfig]_vars

\* ------------------------------------------------------------------ claims
Carries(list, tags) == SetOf(list) \cap SetOf(tags) # {}
\* the list the current update_item_subjects call sent in its first request
Sent == IF log = <<>> THEN {} ELSE { log[1].value }

\* C1: remove-tag writes, for every matched item, the item's current
\* server-side subject list with the tag removed (also when the search
\* record carries no 'subjects' field), so every other tag stays on the item.
C1_RemoveWritesServerListMinusTag ==
  IsRemove(cmd) => \A sent \in Sent : sent = RemoveTag(atCall, cmd.sources[1])

\* C2: CLI merge-tags / rename-tag sends the item's current server-side
\* subject list with the source tags removed and the target appended if
\* absent, whatever fetches fail.
C2_MergeWritesServerListMerged ==
  cmd.handler = "cmd_merge_tags"
    => \A sent \in Sent : sent = MergeTags(atCall, cmd.sources, cmd.target)

\* C3: a command given with --dry-run, on any entry point, sends no write
\* request, previews at most 10 items and leaves every item's subjects as
\* they were.
C3_DryRunWritesNothing ==
  cmd.flag => (~wrote /\ srv = pre /\ preview <= PreviewLimit)

\* C4: after a merge (target not among the sources) that went through with
\* every request succeeding, every item that carried a source tag has the
\* target and no source tag, and updated equals the number of distinct
\* matched items.
C4_MergePostcondition ==
  (pc = "done" /\ ran /\ clean /\ ~IsRemove(cmd)
     /\ cmd.target \notin SetOf(cmd.sources))
    => /\ \A i \in Items :
            Carries(pre[i], cmd.sources)
              => (Has(srv[i], cmd.target) /\ ~Carries(srv[i], cmd.sources))
       /\ matched = { i \in Items : Carries(pre[i], cmd.sources) }
       /\ updated = Cardinality(matched)

C4_Witness ==
  /\ pc = "done" /\ ran /\ clean
  /\ cmd.handler = "cmd_merge_tags"
  /\ cmd.sources = <<"swim", "swimming">> /\ cmd.target = "pool"
  /\ Has(pre[1], "swim") /\ ~Has(pre[1], "swimming")
  /\ Has(pre[2], "swimming") /\ ~Has(pre[2], "swim")
  /\ updated = 2

\* C5 as stated: for any source tags and any target, the command run again
\* after a run whose writes all succeeded finds no item and writes nothing.
C5_RerunFindsNothingAnyTarget ==
  (run >= 1 /\ pc # "idle") => (matched = {} /\ ~wrote)

\* C5 as amended: for a target that is not among the source tags (and for
\* remove-tag), the command run again after a run whose requests all
\* succeeded finds no item carrying a source tag and sends no write request.
C5_RerunFindsNothing ==
  (run >= 1 /\ pc # "idle" /\ cmd.target \notin SetOf(cmd.sources))
    => (matched = {} /\ ~wrote /\ \A i \in Items : ~Carries(srv[i], cmd.sources))

C5_Witness ==
  /\ run = 1 /\ pc = "done"
  /\ prev.ran /\ prev.clean /\ prev.matched # {}
  /\ cmd.target \notin SetOf(cmd.sources)
  /\ matched = {} /\ ~wrote

\* C6: whenever update_item_subjects returns without raising, the item's
\* subjects on the server are exactly the set that was passed, whatever the
\* server did with the requests.
C6_ReturnMeansStored ==
  (pc = "after" /\ updResult = "ok") => SetOf(srv[cur.id]) = SetOf(cur.new)

\* C7 as stated: every write request of update_item_subjects is a PATCH to
\* the item with the new subject list under 'Subject'.
C7_OnlySubjectPatches ==
  \A k \in 1..Len(log) :
    /\ log[k].method = "PATCH" /\ log[k].endpoint = "item"
    /\ log[k].field = "Subject" /\ log[k].value = cur.new

\* C7 as amended: the first write request of update_item_subjects is a PATCH
\* to the item with the new subject list under 'Subject'; a further write
\* request is sent only when that first request failed or its response did
\* not show the new subjects.
C7_FirstWriteIsSubjectPatch ==
  log # <<>>
    => /\ log[1].method = "PATCH" /\ log[1].endpoint = "item"
       /\ log[1].field = "Subject" /\ log[1].value = cur.new
       /\ Len(log) > 1 => log[1].resp # "ok"

C7_Witness ==
  /\ pc = "after" /\ updResult = "ok"
  /\ Len(log) = 2 /\ log[1].resp = "unconfirmed" /\ log[2].field = "subjects"

\* C8: the matched items are unioned by @id: an item found by the searches
\* for several source tags goes through the per-item loop (its refetch, its
\* update call, its count) at most once per run.
C8_ProcessedOncePerRun ==
  /\ \A i \in Items : attempts[i] <= 1 /\ counted[i] <= 1
  /\ \A j, k \in 1..Len(queue) : queue[j].id = queue[k].id => j = k

C8_Witness ==
  /\ pc = "done" /\ ran /\ clean /\ Len(cmd.sources) >= 2
  /\ \E i \in Items :
       /\ \A t \in SetOf(cmd.sources) : Has(pre[i], t)
       /\ attempts[i] = 1 /\ counted[i] = 1

\* C9: a failure on one item never stops the batch: every matched item is
\* attempted exactly once, the ones still queued excepted until their turn.
C9_BatchGoesOn ==
  ran => \A i \in matched :
           attempts[i] = IF pc # "done" /\ i \in IdsOf(queue) THEN 0 ELSE 1

C9_Witness ==
  /\ pc = "done" /\ ran
  /\ errors = 1 /\ updated = 1
  /\ srv[1] = pre[1] /\ srv[2] # pre[2]

\* C10: when the search strategy of get_all_tags raised (on its first request,
\* on a later page or on an item) or completed with no tag, the map is
\* returned only after the recursive browse has run.
C10_FallbackAfterFailedSearch ==
  (tpc = "returned" /\ search_end \in {"first", "page", "item", "empty"})
    => browsed

\* C11: get_all_tags never lets an exception out, whatever request fails and
\* whatever response is malformed; and once its first search request has
\* failed, it goes on to the recursive browse.
C11_NeverRaises ==
  /\ tpc # "raised"
  /\ search_end = "first" => (tpc = "decide" \/ browsed)

\* the first search request failed, the browse could fetch nothing, and an
\* empty map was returned
C11_Witness ==
  /\ tpc = "returned" /\ search_end = "first" /\ browsed
  /\ item_cache = {} /\ ~AnyTag(tag_counts)

\* C12: a failure confined to one item leaves the other items of the same
\* page or container, and the sibling subtrees, to be read: when the map is
\* returned, nothing that carries a tag or is a container was left unread.
C12_FailureSkipsOnlyItsItem ==
  tpc = "returned"
    => \A item \in skipped : item.dict => (Subjects(item) = <<>> /\ ~item.folder)

\* A call of find_similar_tags has returned; the place of a key in the map.
SimilarReturned == fcall.fn = "find_similar_tags" /\ fresult.kind = "returned"
Pos(t) == CHOOSE k \in 1..Len(fcall.map) : fcall.map[k].tag = t
Score(a, b) == Ratio(Lower(a), Lower(b))

\* C13: with a query tag X, the result holds exactly the keys of the map
\* whose similarity to X is at least the threshold, each once, with its
\* frequency and no matched tag; X itself is there with score 100 when it is
\* a key.
C13_QueryMode ==
  (SimilarReturned /\ fcall.query # "")
    => LET m == fcall.map
           res == fresult.v
       IN /\ \A k \in 1..Len(m) :
               Cardinality({ j \in 1..Len(res) : res[j].tag = m[k].tag })
                 = IF Score(fcall.query, m[k].tag) >= fcall.threshold THEN 1 ELSE 0
          /\ \A j \in 1..Len(res) :
               \E k \in 1..Len(m) :
                 res[j] = Record(m[k].tag, m[k].count,
                                 Score(fcall.query, m[k].tag), None)
          /\ \A k \in 1..Len(m) :
               m[k].tag = fcall.query
                 => \E j \in 1..Len(res) :
                      res[j].tag = fcall.query /\ res[j].score = 100

C13_Witness ==
  /\ SimilarReturned /\ fcall.query = "Swim" /\ fcall.threshold = 68
  /\ Len(fcall.map) = 3 /\ Len(fresult.v) = 2
  /\ fresult.v[1].tag = "Swim" /\ fresult.v[1].score = 100
  /\ fresult.v[2].tag = "swims"

Lo(r) == IF r.matched = None \/ Pos(r.tag) < Pos(r.matched) THEN Pos(r.tag)
         ELSE Pos(r.matched)
Hi(r) == IF r.matched = None \/ Pos(r.tag) > Pos(r.matched) THEN Pos(r.tag)
         ELSE Pos(r.matched)
GeneratedBefore(x, y) == Lo(x) < Lo(y) \/ (Lo(x) = Lo(y) /\ Hi(x) < Hi(y))
SameKey(x, y) ==
  x.score = y.score /\ x.freq = y.freq /\ Lower(x.tag) = Lower(y.tag)

\* C15: the result is ordered by falling similarity, then falling frequency,
\* then rising lower-cased name; records equal on all three stay in the
\* order in which they were generated from the map.
C15_Ordering ==
  SimilarReturned
    => \A a, b \in 1..Len(fresult.v) :
         a < b
           => LET x == fresult.v[a]
                  y == fresult.v[b]
              IN \/ x.score > y.score
                 \/ x.score = y.score /\ x.freq > y.freq
                 \/ /\ x.score = y.score /\ x.freq = y.freq
                    /\ AlphaRank(Lower(x.tag)) < AlphaRank(Lower(y.tag))
                 \/ SameKey(x, y) /\ GeneratedBefore(x, y)

\* pair mode: a record of higher similarity first, then two records equal on
\* the three keys in the order of their pairs
C15_Witness ==
  /\ SimilarReturned /\ fcall.query = "" /\ Len(fresult.v) = 3
  /\ fresult.v[1].score > fresult.v[2].score
  /\ SameKey(fresult.v[2], fresult.v[3])
  /\ fresult.v[2].matched # fresult.v[3].matched

\* C16: the subjects of an item are those of the first key it has in the
\* order Subject, subject, @components.Subject, metadata.Subject, subjects,
\* keywords, Keywords, tags, Tags, blank entries dropped; the keys after it
\* are not read, even when its value is empty.
C16_FirstPresentKey ==
  (fcall.fn = "subjects" /\ fresult.kind = "returned")
    => LET f == fcall.item.fields
           keys == { f[j].key : j \in 1..Len(f) }
           value(k) == f[CHOOSE j \in 1..Len(f) : f[j].key = k].val.v
       IN IF keys = {} THEN fresult.v = <<>>
          ELSE \E k \in 1..Len(FieldOrder) :
                 /\ FieldOrder[k] \in keys
                 /\ \A j \in 1..(k - 1) : FieldOrder[j] \notin keys
                 /\ fresult.v = SelectSeq(value(FieldOrder[k]),
                                          LAMBDA x : x # "" /\ Strip(x) # "")

\* an item whose 'subject' key is empty and whose 'Tags' key holds a tag:
\* nothing is extracted
C16_Witness ==
  /\ fcall.fn = "subjects" /\ fresult.kind = "returned"
  /\ fcall.item.fields = << Field("Tags", ListVal(<<"swim">>)),
                            Field("subject", ListVal(<<>>)) >>
  /\ fresult.v = <<>>

\* the read failed: nothing came back, or an error status, or a body that is
\* not JSON
FailedRead(response) ==
  \/ ~response.reached
  \/ response.status >= 400
  \/ response.body \notin JsonBodies

\* C17: api.fetch returns (url, data) only for a response that was received,
\* has no 4xx/5xx status and carries JSON; a failed read raises APIError, and
\* the get command then stops with an error before printing anything.
C17_FetchRaisesOnFailedRead ==
  /\ (fcall.fn = "fetch" /\ ~Pending)
       => /\ fresult.kind = "returned"
               => /\ ~FailedRead(fcall.response)
                  /\ fresult.v = [ url |-> "url", data |-> fcall.response.body ]
          /\ FailedRead(fcall.response) => fresult = Raised("APIError")
  /\ (fcall.fn = "get" /\ ~Pending /\ FailedRead(fcall.response))
       => /\ fresult.kind = "raised"
          /\ fresult.printed = <<>>

\* status 200 with a body that is not JSON: the get command stops with CliError
C17_Witness ==
  /\ fcall.fn = "get" /\ ~Pending
  /\ fcall.response = [ reached |-> TRUE, status |-> 200, body |-> "text" ]
  /\ fresult = [ kind |-> "raised", error |-> "CliError", printed |-> <<>> ]

\* the map of a call that gets the answers `got` with no other call running
\* (a call alone asks for a listing exactly when its search gave no tags)
BrowsesAlone(got) ==
  LET search == SearchStep(NoCounts, got[1])
  IN ~search.used_search \/ ~AnyTag(search.tc)
Alone(got) ==
  LET search == SearchStep(NoCounts, got[1])
  IN IF BrowsesAlone(got) THEN ListingStep(search.tc, got[2]) ELSE search.tc
\* the tags in the answers a call got
CountsOf(answer) ==
  CASE answer.kind = "page" -> ScanPage(answer.pg, 0, NoCounts).tc
    [] answer.kind = "listing" -> CountListing(NoCounts, answer.items)
    [] OTHER -> NoCounts
TagsIn(got) ==
  { tag \in Tags : \E k \in 1..Len(got) : CountsOf(got[k])[tag] > 0 }

\* C18: of get_all_tags calls running at the same time, each returns the map
\* it would return alone on the answers it got, and no tag but those of its
\* own answers.
C18_CallsIsolated ==
  \A t \in Threads :
    calls.th[t].pc = "returned"
      => /\ Len(calls.th[t].got) = (IF BrowsesAlone(calls.th[t].got) THEN 2 ELSE 1)
         /\ calls.th[t].result = Alone(calls.th[t].got)
         /\ \A tag \in Tags : calls.th[t].result[tag] > 0 => tag \in TagsIn(calls.th[t].got)

\* both calls returned, each with the tags of its own answers only
C18_Witness ==
  /\ calls.th[1].pc = "returned" /\ calls.th[2].pc = "returned"
  /\ calls.th[1].result["swim"] = 2 /\ calls.th[1].result["news"] = 0
  /\ calls.th[2].result["swim"] = 0 /\ calls.th[2].result["news"] = 1
  /\ Len(calls.th[2].got) = 2

\* the items of the page asked for last (none when that request failed)
LastLen ==
  IF page_lens = <<>> \/ page_lens[Len(page_lens)] < 0 THEN 0
  ELSE page_lens[Len(page_lens)]

C20_ShortPageIsLast ==
  \A k \in 1..(Len(page_lens) - 1) : page_lens[k] >= PageSize

\* get_all_tags has ended, by a return or by an exception
Ended == tpc \in {"returned", "raised"}

\* C21: a get_all_tags call ends; it asks for at most one search page per
\* 1000 items of the limit besides the first, and its recursion is at most
\* MaxDepth + 1 calls deep.
C21_Terminates ==
  /\ [](Len(page_lens) <= 1 + (MaxItems \div PageSize))
  /\ [](Len(stack) <= MaxDepth + 1)
  /\ <>Ended

\* the search ran to its limit without a tag, and the fallback went through
\* the containers that list each other and returned
C21_Witness ==
  /\ tpc = "returned"
  /\ Len(page_lens) = 1 + (MaxItems \div PageSize)
  /\ site = SmallSite
  /\ visited = {0, 1, 2}

\* C22: within one get_all_tags call the fallback asks the server for each
\* container path at most once, whatever the links between the containers.
C22_EachPathFetchedOnce == ~refetched

\* the containers that list each other, and the one listed by two parents,
\* were each asked for once
C22_Witness ==
  /\ tpc = "returned"
  /\ site = SmallSite
  /\ fetched = {0, 1, 2}
  /\ ~refetched

\* C23: the fallback asks for no container more than MaxDepth levels below
\* the starting path, which is at depth 0.
C23_DepthBound == deepest <= MaxDepth

\* in the chain of nested containers the one at depth MaxDepth was asked
\* for and the next one was not
C23_Witness ==
  /\ tpc = "returned"
  /\ site = DeepSite
  /\ deepest = MaxDepth
  /\ (start + MaxDepth) \in fetched
  /\ (start + MaxDepth + 1) \notin fetched
  /\ start + MaxDepth + 1 <= ChainLen

\* C24: in the CLI merge-tags handler every matched item adds at most one to
\* updated or errors, so both together stay within the number of matched
\* items; and updated grows only after an update call that returned and a
\* verification refetch that showed the item merged or could not be read.
C24_Accounting ==
  /\ [](cmd.handler = "cmd_merge_tags"
          => /\ \A i \in Items : counted[i] <= (IF i \in matched THEN 1 ELSE 0)
             /\ updated + errors <= Cardinality(matched))
  /\ [][(cmd.handler = "cmd_merge_tags" /\ updated' = updated + 1)
          => (updResult = "ok" /\ verified' \in {"merged", "unread"})]_vars

\* of two matched items one was counted as updated and the other, whose
\* verification showed it unmerged, as an error
C24_Witness ==
  /\ cmd.handler = "cmd_merge_tags"
  /\ Cardinality(matched) = 2
  /\ updated = 1 /\ errors = 1
  /\ verified = "unmerged"

\* the URL lies under the base: same host, and the base's path leads it
Under(url, base) ==
  /\ url.host = base.host
  /\ Len(url.path) >= Len(base.path)
  /\ SubSeq(url.path, 1, Len(base.path)) = base.path

\* C25: a request carries the saved token only when its URL lies under the
\* base URL the token was saved for.
C25_TokenOnlyUnderItsBase ==
  (request # NoRequest /\ request.auth = "saved")
    => Under(request.url, config.base)

\* C30: two @login-renew requests of one process are at least
\* TOKEN_REFRESH_MIN_INTERVAL seconds apart.
C30_RenewalsApart ==
  \A k \in 1..(Len(renewLog) - 1) :
    renewLog[k + 1] - renewLog[k] >= TOKEN_REFRESH_MIN_INTERVAL

\* C26. Failure leaves the item untouched: when update_item_subjects raises
\* APIError, the item's subjects on the server are the ones it had when the
\* function was called; no intermediate write (such as the clearing write of
\* the clear-then-set approach) remains applied.
C26_FailureLeavesItemUntouched ==
  (pc = "after" /\ updResult = "raise") => SetOf(srv[cur.id]) = SetOf(atCall)

\* What cmd_merge_tags sends for an item whose requests all succeed: the
\* item is fetched again and the sources are merged in its own Subject list.
CliMerged(current, c) == CleanSubjects(MergeTags(current, c.sources, c.target))

\* The first write of update_item_subjects was accepted and confirmed, in a
\* merge whose earlier requests all succeeded and whose arguments are the
\* source tags and the target as given.
MergedAtOnce(handlers) ==
  /\ pc = "after"
  /\ updResult = "ok"
  /\ Len(log) = 1
  /\ clean
  /\ ~cur.fallback
  /\ ~cmd.flag
  /\ cmd.handler \in handlers

\* C27. Front-end equivalence of merge: for the same corpus, source tags and
\* target, HTTP POST /api/tags/merge and the REPL merge-tags command leave a
\* matched item with the same final subject set as the CLI merge-tags command
\* does.
C27_FrontEndsMergeAlike ==
  MergedAtOnce({"cmd_merge_tags", "repl_merge", "http_merge"})
    => SetOf(srv[cur.id]) = SetOf(CliMerged(atCall, cmd))

\* C28. No data race on the configuration file: a load_config that overlaps
\* another thread's save_config returns the complete old or the complete new
\* configuration, never "no config"; so no request falls back to the default
\* base URL or leaves out its Authorization header because of the overlap.
C28_LoadSeesWholeConfig ==
  \A t \in Threads :
    /\ workers[t].got # NoConfig
    /\ workers[t].pc # "idle" => workers[t].base # DEFAULT_BASE
    /\ workers[t].pc = "sent" => workers[t].auth = "saved"

\* the @ids of the site's items that carry tag t, whichever containers list
\* them
Carriers(t) ==
  { it.id : it \in { x \in UNION { SetOf(site[p]) : p \in DOMAIN site } :
                       x.dict /\ Has(Subjects(x), t) } }

\* C29. The count get_all_tags reports for a tag never exceeds the number of
\* distinct content items (by @id) that carry that tag, whatever the site's
\* structure; stated for the calls whose counts all come from browsing the
\* site (the search gave no item).
C29_CountsDistinctItems ==
  (browsed /\ nitems = 0)
    => \A t \in Tags : tag_counts[t] <= Cardinality(Carriers(t))

====
